---- MODULE Spec2Model ----
(***************************************************************************)
(* Session store and request workflow of the analytics backend.            *)
(*                                                                         *)
(* utils/session_manager.py : SessionState, SessionManager (the registry   *)
(*   _sessions, the lock _lock, handles bound to a state object).          *)
(* app.py : the request handlers run by concurrent worker threads; each    *)
(*   handler is a sequence of steps, one per access to shared state, so    *)
(*   that threads interleave between those accesses.                       *)
(* The agents package is not part of the sources at hand: the stage        *)
(* operations (InputAgent, CleaningAgent, NLQAgent) follow the stage       *)
(* contracts of the specification and act through the handle they are      *)
(* given.                                                                  *)
(***************************************************************************)
EXTENDS Integers, Sequences, FiniteSets, TLC

(* ------------------------------ bounds -------------------------------- *)
NumThreads == 2
NumIds == 2
NumFiles == 2
MaxRequests == 2
MaxStoreRequests == 3
MaxFlowRequests == 3
MaxSeqRequests == 4
MaxLogRequests == 3
MaxLiveRequests == 3
MaxMethodRequests == 3

Threads == 1..NumThreads
\* ids uuid4 can return
Ids == 1..NumIds
\* a client-invented id that uuid4 never returns
Bogus == NumIds + 1
\* contents of uploaded files
Files == 1..NumFiles
\* addresses of SessionState objects: at most one per registered id (Bogus
\* included) and one per handle are alive at a time
Objs == 1..(NumIds + 1 + NumThreads)

(* ------------------------------ state --------------------------------- *)
VARIABLES
  sessions,   \* SessionManager._sessions: registered id -> state object
  lock,       \* SessionManager._lock: the thread holding it, or None
  heap,       \* state object -> SessionState
  cookie,     \* the browser's analytics_session_id cookie
  issued,     \* ids uuid4 has returned so far
  published,  \* ids a response has handed to a client
  nreq,       \* requests started so far
  thr         \* per worker thread: the request it runs and its locals

vars == <<sessions, lock, heap, cookie, issued, published, nreq, thr>>

None == 0

\* an empty dict ({}) in a latest-result cache; a non-empty one records the
\* dataset it was computed from (ds) and the request that produced it (rq)
EmptyDict == [ds |-> None, rq |-> None]

Payload(d, n) == [ds |-> d, rq |-> n]

\* SessionState(): every field at its default
SessionState ==
  [ raw_dataframe      |-> None,
    cleaned_dataframe  |-> None,
    current_dataframe  |-> None,
    dataset_metadata   |-> <<>>,
    cleaning_log       |-> <<>>,
    query_history      |-> <<>>,
    generated_charts   |-> <<>>,
    insights           |-> <<>>,
    agent_status       |-> [ input_complete    |-> FALSE,
                             cleaning_complete |-> FALSE,
                             nlq_ready         |-> FALSE ],
    uploaded_file_info |-> EmptyDict,
    dataset_preview    |-> EmptyDict,
    cleaning_summary   |-> EmptyDict,
    last_query_result  |-> EmptyDict,
    chart_payloads     |-> <<>>,
    report_status      |-> EmptyDict ]

\* a worker thread between requests
IdleThread ==
  [ pc    |-> "idle",   \* position in the handler
    route |-> "none",   \* the handler being run
    hdr   |-> None,     \* X-Session-Id header of the request
    cin   |-> None,     \* session cookie the request arrived with
    fs    |-> None,     \* flask_session[SESSION_COOKIE_KEY] during the request
    sid   |-> None,     \* local session_id / self.session_id
    st    |-> None,     \* self.state of the request's handle
    res   |-> "none",   \* outcome of the request
    inp   |-> None,     \* uploaded file / query text / chart form
    rq    |-> None,     \* serial number of the request
    tmp   |-> <<>> ]    \* result["charts"], then the value computed for the
                        \* assignment to chart_payloads

WebRoutes ==
  {"index", "session_reset", "upload", "clean", "query", "reset",
   "visualize_auto", "visualize_custom", "report"}
ApiRoutes ==
  {"api_reset", "api_summary", "api_upload", "api_clean", "api_query",
   "api_visualize_auto", "api_visualize_custom", "api_report"}
DirectCalls == {"delete_session", "construct", "has_session", "add_insight"}
\* the instance methods of SessionManager, called on a handle constructed for
\* the id
MethodCalls ==
  {"set_dataframe", "add_cleaning_log", "add_query", "add_chart",
   "set_metadata", "update_agent_status", "set_file_info", "reset_session"}
Routes == WebRoutes \cup ApiRoutes \cup DirectCalls \cup {"api_session", "download_report"}

(* ----------------------- objects and the registry ---------------------- *)
\* o is referenced by the registry s or by a handle of th
Referenced(o, s, th) ==
  \/ \E i \in DOMAIN s : s[i] = o
  \/ \E t \in Threads : th[t].st = o

\* Python frees an object nothing refers to
Collect(h, s, th) ==
  [o \in Objs |-> IF Referenced(o, s, th) THEN h[o] ELSE SessionState]

\* address of a newly constructed SessionState()
NewObj(s, th) ==
  CHOOSE o \in Objs : /\ ~Referenced(o, s, th)
                      /\ \A p \in Objs : ~Referenced(p, s, th) => o <= p

\* d[k] = v on a dict
Put(d, k, v) == [x \in DOMAIN d \cup {k} |-> IF x = k THEN v ELSE d[x]]

\* d.pop(k, None) on a dict: the dict afterwards
Pop(d, k) == [x \in DOMAIN d \ {k} |-> d[x]]

\* session_id in cls._sessions
has_session(i) == i \in DOMAIN sessions

\* one step of thread t: its locals become r, the registry s, the heap h
Step(t, r, s, h) ==
  LET th == [thr EXCEPT ![t] = r] IN
  /\ thr' = th
  /\ sessions' = s
  /\ heap' = Collect(h, s, th)

Local(t, r) == Step(t, r, sessions, heap) /\ UNCHANGED <<lock, cookie, issued, published, nreq>>

Init ==
  /\ sessions = <<>>
  /\ lock = None
  /\ heap = [o \in Objs |-> SessionState]
  /\ cookie = None
  /\ issued = {}
  /\ published = {}
  /\ nreq = 0
  /\ thr = [t \in Threads |-> IdleThread]

(* --------------------------- request arrival --------------------------- *)
\* first step of each handler
Entry(r) ==
  CASE r \in WebRoutes -> "ews_check"
    [] r \in ApiRoutes -> "gsa_check"
    [] r = "api_session" -> "create_uuid"
    [] r = "download_report" -> "rsr_header"
    [] r = "delete_session" -> "del_lock"
    [] r \in {"construct", "add_insight"} \cup MethodCalls -> "init_lock"
    [] r = "has_session" -> "has_read"

\* what a client can send as X-Session-Id, or a caller pass to a direct call:
\* an id a response has carried, or one of its own invention
Presentable == published \cup {Bogus}

\* a request for one of the routes R arrives and a worker thread picks it up;
\* at most max requests are served
StartRequest(t, R, max) ==
  /\ thr[t].pc = "idle"
  /\ nreq < max
  /\ \E r \in R, h \in Presentable \cup {None}, i \in Files \cup {None} :
       /\ r \in WebRoutes \cup {"api_session"} => h = None
       /\ r \in DirectCalls \cup MethodCalls => h # None
       /\ r \notin {"upload", "api_upload", "query", "api_query",
                    "visualize_custom", "api_visualize_custom"} => i = None
       /\ r \in {"query", "api_query", "visualize_custom", "api_visualize_custom"}
            => i \in {None, 1}
       \* reset_web_session drops the cookie's id first (line 222)
       /\ Step(t, [IdleThread EXCEPT
                      !.pc = Entry(r), !.route = r,
                      !.hdr = IF r \in DirectCalls \cup MethodCalls THEN None ELSE h,
                      !.sid = IF r \in DirectCalls \cup MethodCalls THEN h ELSE None,
                      !.cin = IF r \in WebRoutes \cup {"download_report"} THEN cookie ELSE None,
                      !.fs = IF r \in (WebRoutes \ {"session_reset"}) \cup {"download_report"}
                               THEN cookie ELSE None,
                      !.inp = i, !.rq = nreq + 1],
               sessions, heap)
  /\ nreq' = nreq + 1
  /\ UNCHANGED <<lock, cookie, issued, published>>

(* ------------------- SessionManager: class methods -------------------- *)
\* create_session, line 57: session_id = uuid.uuid4().hex
create_uuid(t) ==
  /\ thr[t].pc = "create_uuid"
  /\ \E i \in Ids \ issued :
       /\ issued' = issued \cup {i}
       /\ Step(t, [thr[t] EXCEPT !.pc = "create_lock", !.sid = i], sessions, heap)
  /\ UNCHANGED <<lock, cookie, published, nreq>>

\* create_session, line 58: with cls._lock
create_lock(t) ==
  /\ thr[t].pc = "create_lock"
  /\ lock = None
  /\ lock' = t
  /\ Step(t, [thr[t] EXCEPT !.pc = "create_store"], sessions, heap)
  /\ UNCHANGED <<cookie, issued, published, nreq>>

\* create_session binding the new id to a state another session already has
CreateStoreShared(s, th, i) ==
  IF DOMAIN s = {} THEN Put(s, i, NewObj(s, th))
  ELSE Put(s, i, s[CHOOSE j \in DOMAIN s : TRUE])

\* the registry after cls._sessions[session_id] = SessionState()
CreateStore(s, th, i) == Put(s, i, NewObj(s, th))

\* create_session, lines 59-60: the store, the release and the return; the
\* caller is the /api/session handler (line 351) or ensure_web_session, which
\* puts the id in the cookie (line 67) and goes on to construct the handle
create_store(t) ==
  /\ thr[t].pc = "create_store"
  /\ lock' = None
  /\ Step(t,
          IF thr[t].route = "api_session"
            THEN [thr[t] EXCEPT !.pc = "done", !.res = "ok"]
            ELSE [thr[t] EXCEPT !.pc = "init_lock", !.fs = thr[t].sid],
          CreateStore(sessions, thr, thr[t].sid), heap)
  /\ UNCHANGED <<cookie, issued, published, nreq>>

\* delete_session, line 65: with cls._lock
del_lock(t) ==
  /\ thr[t].pc = "del_lock"
  /\ lock = None
  /\ lock' = t
  /\ Step(t, [thr[t] EXCEPT !.pc = "del_pop"], sessions, heap)
  /\ UNCHANGED <<cookie, issued, published, nreq>>

\* delete_session emptying the registry instead of removing one entry
DeletePopClear(s, i) == IF i \in DOMAIN s THEN <<>> ELSE s

\* the registry after cls._sessions.pop(session_id, None)
DeletePop(s, i) == Pop(s, i)

\* delete_session, line 66, and the release
del_pop(t) ==
  /\ thr[t].pc = "del_pop"
  /\ lock' = None
  /\ Step(t, [thr[t] EXCEPT !.pc = "done", !.res = "ok"],
          DeletePop(sessions, thr[t].sid), heap)
  /\ UNCHANGED <<cookie, issued, published, nreq>>

\* has_session called on its own: the registry is read without the lock
has_read(t) ==
  /\ thr[t].pc = "has_read"
  /\ Local(t, [thr[t] EXCEPT !.pc = "done",
                 !.res = IF has_session(thr[t].sid) THEN "true" ELSE "false"])

(* --------------------- SessionManager: __init__ ----------------------- *)
\* line 46: with SessionManager._lock
init_lock(t) ==
  /\ thr[t].pc = "init_lock"
  /\ lock = None
  /\ lock' = t
  /\ Step(t, [thr[t] EXCEPT !.pc = "init_check"], sessions, heap)
  /\ UNCHANGED <<cookie, issued, published, nreq>>

\* lines 47-48 binding an absent id to a state another session already has
InitRegisterShared(s, th, i) ==
  IF i \in DOMAIN s THEN s
  ELSE IF DOMAIN s = {} THEN Put(s, i, NewObj(s, th))
  ELSE Put(s, i, s[CHOOSE j \in DOMAIN s : TRUE])

\* the registry after lines 47-48: an absent id gets a new SessionState()
InitRegister(s, th, i) ==
  IF i \in DOMAIN s THEN s ELSE Put(s, i, NewObj(s, th))

\* lines 47-48 leaving the with block without releasing the lock
init_check_hold(t) ==
  /\ thr[t].pc = "init_check"
  /\ Step(t, [thr[t] EXCEPT !.pc = "init_bind"],
          InitRegister(sessions, thr, thr[t].sid), heap)
  /\ UNCHANGED <<lock, cookie, issued, published, nreq>>

\* lines 47-48 and the release
init_check(t) ==
  /\ thr[t].pc = "init_check"
  /\ lock' = None
  /\ Step(t, [thr[t] EXCEPT !.pc = "init_bind"],
          InitRegister(sessions, thr, thr[t].sid), heap)
  /\ UNCHANGED <<cookie, issued, published, nreq>>

\* first step of the handler's body once it has its handle
Body(r) ==
  CASE r = "upload" -> "upload_step_exec"
    [] r = "api_upload" -> "upload_file_exec"
    [] r = "clean" -> "clean_step_exec"
    [] r = "api_clean" -> "clean_data_exec"
    [] r = "query" -> "query_step_exec"
    [] r = "api_query" -> "run_query_exec"
    [] r \in {"reset", "api_reset"} -> "reset_store"
    [] r = "visualize_auto" -> "auto_visualize_step_exec"
    [] r = "visualize_custom" -> "custom_visualize_step_exec"
    [] r = "api_visualize_auto" -> "auto_visualize_exec"
    [] r = "api_visualize_custom" -> "custom_visualize_exec"
    [] r = "report" -> "report_step_exec"
    [] r = "api_report" -> "generate_report_exec"
    [] r = "add_insight" -> "add_insight_call"
    [] r = "set_dataframe" -> "set_dataframe_call"
    [] r = "add_cleaning_log" -> "add_cleaning_log_call"
    [] r = "add_query" -> "add_query_call"
    [] r = "add_chart" -> "add_chart_call"
    [] r = "set_metadata" -> "set_metadata_call"
    [] r = "update_agent_status" -> "update_agent_status_call"
    [] r = "set_file_info" -> "set_file_info_call"
    [] r = "reset_session" -> "reset_store"
    [] OTHER -> "done"

\* line 49, outside the lock: self.state = SessionManager._sessions[session_id];
\* the subscript raises KeyError when the id is no longer registered
init_bind(t) ==
  /\ thr[t].pc = "init_bind"
  /\ Local(t,
       IF thr[t].sid \in DOMAIN sessions
         THEN [thr[t] EXCEPT !.pc = Body(thr[t].route),
                             !.st = sessions[thr[t].sid],
                             !.res = IF Body(thr[t].route) = "done" THEN "ok" ELSE "none"]
         ELSE [thr[t] EXCEPT !.pc = "done", !.res = "InternalFault"])

(* ------------------- app.py: resolving the session --------------------- *)
\* ensure_web_session, lines 64-65: the cookie's id is kept when has_session
\* finds it, otherwise create_session is called
ews_check(t) ==
  /\ thr[t].pc = "ews_check"
  /\ Local(t,
       IF thr[t].fs # None /\ has_session(thr[t].fs)
         THEN [thr[t] EXCEPT !.pc = "init_lock", !.sid = thr[t].fs]
         ELSE [thr[t] EXCEPT !.pc = "create_uuid"])

\* get_session_or_abort, lines 82-85
gsa_check(t) ==
  /\ thr[t].pc = "gsa_check"
  /\ Local(t,
       IF thr[t].hdr # None /\ has_session(thr[t].hdr)
         THEN [thr[t] EXCEPT !.pc = "init_lock", !.sid = thr[t].hdr]
         ELSE [thr[t] EXCEPT !.pc = "done", !.res = "BadRequest"])

\* resolve_session_from_request, lines 72-74
rsr_header(t) ==
  /\ thr[t].pc = "rsr_header"
  /\ Local(t,
       IF thr[t].hdr # None /\ has_session(thr[t].hdr)
         THEN [thr[t] EXCEPT !.pc = "init_lock", !.sid = thr[t].hdr]
         ELSE [thr[t] EXCEPT !.pc = "rsr_cookie"])

\* resolve_session_from_request, lines 75-78
rsr_cookie(t) ==
  /\ thr[t].pc = "rsr_cookie"
  /\ Local(t,
       IF thr[t].fs # None /\ has_session(thr[t].fs)
         THEN [thr[t] EXCEPT !.pc = "init_lock", !.sid = thr[t].fs]
         ELSE [thr[t] EXCEPT !.pc = "done", !.res = "BadRequest"])

(* ------------------ SessionManager: reset_session ---------------------- *)
\* the registry after line 141: SessionManager._sessions[self.session_id] = SessionState()
ResetStore(s, th, i) == Put(s, i, NewObj(s, th))

\* line 141, without the lock
reset_store(t) ==
  /\ thr[t].pc = "reset_store"
  /\ Step(t, [thr[t] EXCEPT !.pc = "reset_bind"],
          ResetStore(sessions, thr, thr[t].sid), heap)
  /\ UNCHANGED <<lock, cookie, issued, published, nreq>>

\* line 142, without the lock: self.state = SessionManager._sessions[self.session_id]
reset_bind(t) ==
  /\ thr[t].pc = "reset_bind"
  /\ Local(t,
       IF thr[t].sid \in DOMAIN sessions
         THEN [thr[t] EXCEPT !.pc = "done", !.st = sessions[thr[t].sid], !.res = "ok"]
         ELSE [thr[t] EXCEPT !.pc = "done", !.res = "InternalFault"])

(* ---------------- SessionManager: instance methods --------------------- *)
\* set_dataframe with line 80 as the else branch: 'raw' and 'cleaned' leave
\* current_dataframe alone
set_dataframe_else(s, df, df_type) ==
  IF df_type = "raw" THEN [s EXCEPT !.raw_dataframe = df]
  ELSE IF df_type = "cleaned" THEN [s EXCEPT !.cleaned_dataframe = df]
  ELSE [s EXCEPT !.current_dataframe = df]

\* set_dataframe(df, df_type), lines 75-80
set_dataframe(s, df, df_type) ==
  LET s1 == IF df_type = "raw" THEN [s EXCEPT !.raw_dataframe = df]
            ELSE IF df_type = "cleaned" THEN [s EXCEPT !.cleaned_dataframe = df]
            ELSE s
  IN [s1 EXCEPT !.current_dataframe = df]

\* add_cleaning_log, lines 92-97
add_cleaning_log(s, e) == [s EXCEPT !.cleaning_log = Append(@, e)]

\* add_query putting the new entry in front
add_query_front(s, e) == [s EXCEPT !.query_history = <<e>> \o @]

\* add_query, lines 99-105
add_query(s, e) == [s EXCEPT !.query_history = Append(@, e)]

\* add_chart, lines 107-113
add_chart(s, e) == [s EXCEPT !.generated_charts = Append(@, e)]

\* add_insight, lines 115-120
add_insight(s, e) == [s EXCEPT !.insights = Append(@, e)]

\* set_metadata, lines 125-126
set_metadata(s, key, value) == [s EXCEPT !.dataset_metadata = Put(@, key, value)]

\* update_agent_status, lines 131-132
update_agent_status(s, agent, status) == [s EXCEPT !.agent_status[agent] = status]

\* set_file_info, lines 134-135
set_file_info(s, info) == [s EXCEPT !.uploaded_file_info = info]

(* ------------------- the stage operations (agents) --------------------- *)
\* the dataset cleaning produces from d
Cleaned(d) == IF d \in Files THEN d + NumFiles ELSE d

\* the upload a dataset comes from
Origin(d) == IF d > NumFiles THEN d - NumFiles ELSE d

\* upload stage, on success: assigns rawDataset and currentDataset, sets
\* input-complete, records the file
InputAgentExecute(s, f, n) ==
  set_file_info(
    update_agent_status(set_dataframe(s, f, "raw"), "input_complete", TRUE),
    Payload(f, n))

\* clean stage: requires input-complete
CleaningAgentReady(s) == s.agent_status.input_complete

\* clean stage, on success: assigns cleanedDataset and currentDataset, sets
\* cleaning-complete, appends one entry to cleaningLog
CleaningAgentExecute(s, n) ==
  add_cleaning_log(
    update_agent_status(
      set_dataframe(s, Cleaned(s.current_dataframe), "cleaned"),
      "cleaning_complete", TRUE),
    Payload(Origin(s.current_dataframe), n))

\* query stage: requires a non-null currentDataset
NLQAgentReady(s) == s.current_dataframe # None

\* query stage, on success: appends one entry to queryHistory, sets nlq-ready
NLQAgentExecute(s, n) ==
  update_agent_status(
    add_query(s, Payload(Origin(s.current_dataframe), n)),
    "nlq_ready", TRUE)

\* a chart descriptor: the upload it was drawn from, the request that produced
\* it and its position in that request's result
Chart(d, n, k) == [ds |-> d, rq |-> n, k |-> k]

\* visualize stage: requires a non-null currentDataset
VisualizationAgentReady(s) == s.current_dataframe # None

\* visualize stage: result["charts"]; the automatic mode chooses two charts,
\* the custom mode draws the one the caller asked for
VisualizationAgentCharts(s, auto, n) ==
  LET d == Origin(s.current_dataframe) IN
  IF auto THEN <<Chart(d, n, 1), Chart(d, n, 2)>> ELSE <<Chart(d, n, 1)>>

\* visualize stage, on success: appends the new charts to generatedCharts
VisualizationAgentExecute(s, auto, n) ==
  LET charts == VisualizationAgentCharts(s, auto, n)
      s1 == add_chart(s, charts[1])
  IN IF Len(charts) = 1 THEN s1 ELSE add_chart(s1, charts[2])

\* report stage: requires a non-null currentDataset
ReportAgentReady(s) == s.current_dataframe # None

(* ----------------------- app.py: stage handlers ------------------------ *)
\* the state the handle of thread t is bound to
Mine(t) == heap[thr[t].st]

\* thread t takes a step that leaves its state object as s
Write(t, r, s) ==
  /\ Step(t, r, sessions, [heap EXCEPT ![thr[t].st] = s])
  /\ UNCHANGED <<lock, cookie, issued, published, nreq>>

\* where upload_step goes once the agent has returned, lines 239-242
UploadStepNext(success) == IF success THEN "upload_242" ELSE "done"

\* upload_step, lines 231-240: the file check and the agent's run
upload_step_exec(t) ==
  /\ thr[t].pc = "upload_step_exec"
  /\ IF thr[t].inp = None
       THEN Local(t, [thr[t] EXCEPT !.pc = "done", !.res = "InvalidInput"])
       ELSE \E success \in BOOLEAN :
              IF success
                THEN Write(t, [thr[t] EXCEPT !.pc = UploadStepNext(TRUE)],
                           InputAgentExecute(Mine(t), thr[t].inp, thr[t].rq))
                ELSE Local(t, [thr[t] EXCEPT !.pc = UploadStepNext(FALSE),
                                             !.res = "AgentFailure"])

\* line 242: session.state.dataset_preview = result.get("preview", {})
upload_242(t) ==
  /\ thr[t].pc = "upload_242"
  /\ Write(t, [thr[t] EXCEPT !.pc = "upload_243"],
           [Mine(t) EXCEPT !.dataset_preview = Payload(thr[t].inp, thr[t].rq)])

\* line 243: session.state.cleaning_summary = {}
upload_243(t) ==
  /\ thr[t].pc = "upload_243"
  /\ Write(t, [thr[t] EXCEPT !.pc = "upload_244"],
           [Mine(t) EXCEPT !.cleaning_summary = EmptyDict])

\* line 244: session.state.last_query_result = {}
upload_244(t) ==
  /\ thr[t].pc = "upload_244"
  /\ Write(t, [thr[t] EXCEPT !.pc = "upload_245"],
           [Mine(t) EXCEPT !.last_query_result = EmptyDict])

\* line 245: session.state.chart_payloads = []
upload_245(t) ==
  /\ thr[t].pc = "upload_245"
  /\ Write(t, [thr[t] EXCEPT !.pc = "upload_246"],
           [Mine(t) EXCEPT !.chart_payloads = <<>>])

\* lines 246-248: session.state.report_status = {} and the redirect
upload_246(t) ==
  /\ thr[t].pc = "upload_246"
  /\ Write(t, [thr[t] EXCEPT !.pc = "done", !.res = "ok"],
           [Mine(t) EXCEPT !.report_status = EmptyDict])

\* upload_file, lines 370-378: the file check, the agent's run and the return
\* of its result; the handler itself writes nothing to the session
upload_file_exec(t) ==
  /\ thr[t].pc = "upload_file_exec"
  /\ IF thr[t].inp = None
       THEN Local(t, [thr[t] EXCEPT !.pc = "done", !.res = "InvalidInput"])
       ELSE \E success \in BOOLEAN :
              IF success
                THEN Write(t, [thr[t] EXCEPT !.pc = "done", !.res = "ok"],
                           InputAgentExecute(Mine(t), thr[t].inp, thr[t].rq))
                ELSE Local(t, [thr[t] EXCEPT !.pc = "done", !.res = "AgentFailure"])

\* clean_step continuing at line 266 whatever the agent returned
CleanStepAlways(success) == "clean_266"

\* where clean_step goes once the agent has returned, lines 263-266
CleanStepNext(success) == IF success THEN "clean_266" ELSE "done"

\* clean_step, lines 254-264: the agent's run
clean_step_exec(t) ==
  /\ thr[t].pc = "clean_step_exec"
  /\ IF ~CleaningAgentReady(Mine(t))
       THEN Local(t, [thr[t] EXCEPT !.pc = CleanStepNext(FALSE),
                                    !.res = "PrerequisiteNotMet"])
       ELSE \E success \in BOOLEAN :
              IF success
                THEN Write(t, [thr[t] EXCEPT !.pc = CleanStepNext(TRUE)],
                           CleaningAgentExecute(Mine(t), thr[t].rq))
                ELSE Local(t, [thr[t] EXCEPT !.pc = CleanStepNext(FALSE),
                                             !.res = "AgentFailure"])

\* lines 266-268: session.state.cleaning_summary = result.get("summary", {})
clean_266(t) ==
  /\ thr[t].pc = "clean_266"
  /\ Write(t, [thr[t] EXCEPT !.pc = "done", !.res = "ok"],
           [Mine(t) EXCEPT !.cleaning_summary =
              Payload(Origin(Mine(t).cleaned_dataframe), thr[t].rq)])

\* clean_data, lines 391-396
clean_data_exec(t) ==
  /\ thr[t].pc = "clean_data_exec"
  /\ IF ~CleaningAgentReady(Mine(t))
       THEN Local(t, [thr[t] EXCEPT !.pc = "done", !.res = "PrerequisiteNotMet"])
       ELSE \E success \in BOOLEAN :
              IF success
                THEN Write(t, [thr[t] EXCEPT !.pc = "done", !.res = "ok"],
                           CleaningAgentExecute(Mine(t), thr[t].rq))
                ELSE Local(t, [thr[t] EXCEPT !.pc = "done", !.res = "AgentFailure"])

\* where query_step goes once the agent has returned, lines 280-283
QueryStepNext(success) == IF success THEN "query_283" ELSE "done"

\* query_step, lines 274-281: the text check and the agent's run
query_step_exec(t) ==
  /\ thr[t].pc = "query_step_exec"
  /\ IF thr[t].inp = None
       THEN Local(t, [thr[t] EXCEPT !.pc = "done", !.res = "InvalidInput"])
       ELSE IF ~NLQAgentReady(Mine(t))
       THEN Local(t, [thr[t] EXCEPT !.pc = QueryStepNext(FALSE),
                                    !.res = "PrerequisiteNotMet"])
       ELSE \E success \in BOOLEAN :
              IF success
                THEN Write(t, [thr[t] EXCEPT !.pc = QueryStepNext(TRUE)],
                           NLQAgentExecute(Mine(t), thr[t].rq))
                ELSE Local(t, [thr[t] EXCEPT !.pc = QueryStepNext(FALSE),
                                             !.res = "AgentFailure"])

\* lines 283-285: session.state.last_query_result = result
query_283(t) ==
  /\ thr[t].pc = "query_283"
  /\ Write(t, [thr[t] EXCEPT !.pc = "done", !.res = "ok"],
           [Mine(t) EXCEPT !.last_query_result =
              Payload(Origin(Mine(t).current_dataframe), thr[t].rq)])

\* run_query, lines 402-410
run_query_exec(t) ==
  /\ thr[t].pc = "run_query_exec"
  /\ IF thr[t].inp = None
       THEN Local(t, [thr[t] EXCEPT !.pc = "done", !.res = "InvalidInput"])
       ELSE IF ~NLQAgentReady(Mine(t))
       THEN Local(t, [thr[t] EXCEPT !.pc = "done", !.res = "PrerequisiteNotMet"])
       ELSE \E success \in BOOLEAN :
              IF success
                THEN Write(t, [thr[t] EXCEPT !.pc = "done", !.res = "ok"],
                           NLQAgentExecute(Mine(t), thr[t].rq))
                ELSE Local(t, [thr[t] EXCEPT !.pc = "done", !.res = "AgentFailure"])

\* the agent's run in the four visualize handlers: a refusal for a missing
\* prerequisite or a blank chart form, a failure, or a success that leaves
\* result["charts"] in the handler's local and continues at ok
VisualizeExec(t, auto, ok, okres) ==
  IF ~VisualizationAgentReady(Mine(t))
    THEN Local(t, [thr[t] EXCEPT !.pc = "done", !.res = "PrerequisiteNotMet"])
  ELSE IF ~auto /\ thr[t].inp = None
    THEN Local(t, [thr[t] EXCEPT !.pc = "done", !.res = "AgentFailure"])
  ELSE \E success \in BOOLEAN :
         IF success
           THEN Write(t, [thr[t] EXCEPT
                            !.pc = ok, !.res = okres,
                            !.tmp = VisualizationAgentCharts(Mine(t), auto, thr[t].rq)],
                      VisualizationAgentExecute(Mine(t), auto, thr[t].rq))
           ELSE Local(t, [thr[t] EXCEPT !.pc = "done", !.res = "AgentFailure"])

\* auto_visualize_step, lines 290-295: the agent's run
auto_visualize_step_exec(t) ==
  /\ thr[t].pc = "auto_visualize_step_exec"
  /\ VisualizeExec(t, TRUE, "auto_visualize_296_load", "none")

\* line 296, right-hand side: result.get("charts", []) + session.state.chart_payloads
auto_visualize_296_load(t) ==
  /\ thr[t].pc = "auto_visualize_296_load"
  /\ Local(t, [thr[t] EXCEPT !.pc = "auto_visualize_296_store",
                              !.tmp = thr[t].tmp \o Mine(t).chart_payloads])

\* lines 296-298: session.state.chart_payloads = <the value computed>
auto_visualize_296_store(t) ==
  /\ thr[t].pc = "auto_visualize_296_store"
  /\ Write(t, [thr[t] EXCEPT !.pc = "done", !.res = "ok"],
           [Mine(t) EXCEPT !.chart_payloads = thr[t].tmp])

\* custom_visualize_step, lines 303-317: the agent's run; the form's fields go
\* to the agent unchecked
custom_visualize_step_exec(t) ==
  /\ thr[t].pc = "custom_visualize_step_exec"
  /\ VisualizeExec(t, FALSE, "custom_visualize_319_load", "none")

\* line 319, right-hand side
custom_visualize_319_load(t) ==
  /\ thr[t].pc = "custom_visualize_319_load"
  /\ Local(t, [thr[t] EXCEPT !.pc = "custom_visualize_319_store",
                              !.tmp = thr[t].tmp \o Mine(t).chart_payloads])

\* lines 319-321
custom_visualize_319_store(t) ==
  /\ thr[t].pc = "custom_visualize_319_store"
  /\ Write(t, [thr[t] EXCEPT !.pc = "done", !.res = "ok"],
           [Mine(t) EXCEPT !.chart_payloads = thr[t].tmp])

\* auto_visualize, lines 421-426
auto_visualize_exec(t) ==
  /\ thr[t].pc = "auto_visualize_exec"
  /\ VisualizeExec(t, TRUE, "done", "ok")

\* custom_visualize, lines 431-445: lines 434-435 refuse a request without a
\* chart type or an X column before the agent is called
custom_visualize_exec(t) ==
  /\ thr[t].pc = "custom_visualize_exec"
  /\ IF thr[t].inp = None
       THEN Local(t, [thr[t] EXCEPT !.pc = "done", !.res = "InvalidInput"])
       ELSE VisualizeExec(t, FALSE, "done", "ok")

\* where report_step goes once the agent has returned, lines 329-332
ReportStepNext(success) == IF success THEN "report_332" ELSE "done"

\* report_step, lines 326-330: the agent's run
report_step_exec(t) ==
  /\ thr[t].pc = "report_step_exec"
  /\ IF ~ReportAgentReady(Mine(t))
       THEN Local(t, [thr[t] EXCEPT !.pc = ReportStepNext(FALSE),
                                    !.res = "PrerequisiteNotMet"])
       ELSE \E success \in BOOLEAN :
              Local(t, [thr[t] EXCEPT !.pc = ReportStepNext(success),
                                      !.res = IF success THEN "none" ELSE "AgentFailure"])

\* lines 332-337: session.state.report_status = {filename, generated_at}
report_332(t) ==
  /\ thr[t].pc = "report_332"
  /\ Write(t, [thr[t] EXCEPT !.pc = "done", !.res = "ok"],
           [Mine(t) EXCEPT !.report_status =
              Payload(Origin(Mine(t).current_dataframe), thr[t].rq)])

\* generate_report, lines 464-469
generate_report_exec(t) ==
  /\ thr[t].pc = "generate_report_exec"
  /\ IF ~ReportAgentReady(Mine(t))
       THEN Local(t, [thr[t] EXCEPT !.pc = "done", !.res = "PrerequisiteNotMet"])
       ELSE \E success \in BOOLEAN :
              Local(t, [thr[t] EXCEPT !.pc = "done",
                                      !.res = IF success THEN "ok" ELSE "AgentFailure"])

\* session.add_insight(...) on a handle, lines 115-120
add_insight_call(t) ==
  /\ thr[t].pc = "add_insight_call"
  /\ Write(t, [thr[t] EXCEPT !.pc = "done", !.res = "ok"],
           add_insight(Mine(t), thr[t].rq))

(* --------------------------- the response ------------------------------ *)
\* the response is sent: a web response carries the cookie when the handler
\* changed flask_session (lines 67, 222), the /api/session response carries
\* the new id (line 351); the thread is free again
Return(t) ==
  /\ thr[t].pc = "done"
  /\ cookie' = IF thr[t].route \in WebRoutes /\ thr[t].fs # thr[t].cin
                 THEN thr[t].fs ELSE cookie
  /\ published' = IF thr[t].route \in WebRoutes /\ thr[t].fs # None
                      THEN published \cup {thr[t].fs}
                    ELSE IF thr[t].route = "api_session"
                      THEN published \cup {thr[t].sid}
                    ELSE published
  /\ Step(t, IdleThread, sessions, heap)
  /\ UNCHANGED <<lock, issued, nreq>>

Start(t) == StartRequest(t, Routes, MaxRequests)

Next ==
  \E t \in Threads :
    \/ Start(t)
    \/ create_uuid(t) \/ create_lock(t) \/ create_store(t)
    \/ del_lock(t) \/ del_pop(t)
    \/ has_read(t)
    \/ init_lock(t) \/ init_check(t) \/ init_bind(t)
    \/ ews_check(t) \/ gsa_check(t) \/ rsr_header(t) \/ rsr_cookie(t)
    \/ reset_store(t) \/ reset_bind(t)
    \/ upload_step_exec(t)
    \/ upload_242(t) \/ upload_243(t) \/ upload_244(t) \/ upload_245(t) \/ upload_246(t)
    \/ upload_file_exec(t)
    \/ clean_step_exec(t) \/ clean_266(t) \/ clean_data_exec(t)
    \/ query_step_exec(t) \/ query_283(t) \/ run_query_exec(t)
    \/ auto_visualize_step_exec(t) \/ auto_visualize_296_load(t) \/ auto_visualize_296_store(t)
    \/ custom_visualize_step_exec(t) \/ custom_visualize_319_load(t) \/ custom_visualize_319_store(t)
    \/ auto_visualize_exec(t) \/ custom_visualize_exec(t)
    \/ report_step_exec(t) \/ report_332(t) \/ generate_report_exec(t)
    \/ add_insight_call(t)
    \/ Return(t)

Spec == Init /\ [][Next]_vars

(* ---------------------- session lifecycle alone ------------------------ *)
StoreRoutes ==
  {"index", "session_reset", "reset", "upload", "api_session", "api_reset",
   "download_report", "delete_session", "construct", "has_session"}

StartStore(t) == StartRequest(t, StoreRoutes, MaxStoreRequests)

NextStore ==
  \E t \in Threads :
    \/ StartStore(t)
    \/ create_uuid(t) \/ create_lock(t) \/ create_store(t)
    \/ del_lock(t) \/ del_pop(t)
    \/ has_read(t)
    \/ init_lock(t) \/ init_check(t) \/ init_bind(t)
    \/ ews_check(t) \/ gsa_check(t) \/ rsr_header(t) \/ rsr_cookie(t)
    \/ reset_store(t) \/ reset_bind(t)
    \/ upload_step_exec(t)
    \/ upload_242(t) \/ upload_243(t) \/ upload_244(t) \/ upload_245(t) \/ upload_246(t)
    \/ Return(t)

SpecStore == Init /\ [][NextStore]_vars

(* ------------------------- stage workflow alone ------------------------ *)
FlowRoutes == {"upload", "api_upload", "clean", "api_clean", "query", "api_query"}

StartFlow(t) == StartRequest(t, FlowRoutes, MaxFlowRequests)

NextFlow ==
  \E t \in Threads :
    \/ StartFlow(t)
    \/ create_uuid(t) \/ create_lock(t) \/ create_store(t)
    \/ init_lock(t) \/ init_check(t) \/ init_bind(t)
    \/ ews_check(t) \/ gsa_check(t)
    \/ upload_step_exec(t)
    \/ upload_242(t) \/ upload_243(t) \/ upload_244(t) \/ upload_245(t) \/ upload_246(t)
    \/ upload_file_exec(t)
    \/ clean_step_exec(t) \/ clean_266(t) \/ clean_data_exec(t)
    \/ query_step_exec(t) \/ query_283(t) \/ run_query_exec(t)
    \/ Return(t)

SpecFlow == Init /\ [][NextFlow]_vars

(* --------------------- one request at a time --------------------------- *)
\* a request arrives while no other request is being served
StartSeq(t) ==
  /\ \A u \in Threads \ {t} : thr[u].pc = "idle"
  /\ StartRequest(t, Routes, MaxSeqRequests)

NextSeq ==
  \E t \in Threads :
    \/ StartSeq(t)
    \/ create_uuid(t) \/ create_lock(t) \/ create_store(t)
    \/ del_lock(t) \/ del_pop(t)
    \/ has_read(t)
    \/ init_lock(t) \/ init_check(t) \/ init_bind(t)
    \/ ews_check(t) \/ gsa_check(t) \/ rsr_header(t) \/ rsr_cookie(t)
    \/ reset_store(t) \/ reset_bind(t)
    \/ upload_step_exec(t)
    \/ upload_242(t) \/ upload_243(t) \/ upload_244(t) \/ upload_245(t) \/ upload_246(t)
    \/ upload_file_exec(t)
    \/ clean_step_exec(t) \/ clean_266(t) \/ clean_data_exec(t)
    \/ query_step_exec(t) \/ query_283(t) \/ run_query_exec(t)
    \/ auto_visualize_step_exec(t) \/ auto_visualize_296_load(t) \/ auto_visualize_296_store(t)
    \/ custom_visualize_step_exec(t) \/ custom_visualize_319_load(t) \/ custom_visualize_319_store(t)
    \/ auto_visualize_exec(t) \/ custom_visualize_exec(t)
    \/ report_step_exec(t) \/ report_332(t) \/ generate_report_exec(t)
    \/ add_insight_call(t)
    \/ Return(t)

SpecSeq == Init /\ [][NextSeq]_vars

(* ------------------- the routes that write histories ------------------- *)
LogRoutes ==
  {"upload", "clean", "query", "visualize_custom", "add_insight", "reset",
   "delete_session"}

StartLog(t) == StartRequest(t, LogRoutes, MaxLogRequests)

NextLog ==
  \E t \in Threads :
    \/ StartLog(t)
    \/ create_uuid(t) \/ create_lock(t) \/ create_store(t)
    \/ del_lock(t) \/ del_pop(t)
    \/ init_lock(t) \/ init_check(t) \/ init_bind(t)
    \/ ews_check(t)
    \/ reset_store(t) \/ reset_bind(t)
    \/ upload_step_exec(t)
    \/ upload_242(t) \/ upload_243(t) \/ upload_244(t) \/ upload_245(t) \/ upload_246(t)
    \/ clean_step_exec(t) \/ clean_266(t)
    \/ query_step_exec(t) \/ query_283(t)
    \/ custom_visualize_step_exec(t) \/ custom_visualize_319_load(t) \/ custom_visualize_319_store(t)
    \/ add_insight_call(t)
    \/ Return(t)

SpecLog == Init /\ [][NextLog]_vars

(* ------------- the instance methods called on a handle ----------------- *)
\* the values of df_type
DfTypes == {"raw", "cleaned", "current"}

\* session.set_dataframe(df, df_type), lines 75-80
set_dataframe_call(t) ==
  /\ thr[t].pc = "set_dataframe_call"
  /\ \E df \in Files, df_type \in DfTypes :
       Write(t, [thr[t] EXCEPT !.pc = "done", !.res = "ok"],
             set_dataframe(Mine(t), df, df_type))

\* session.add_cleaning_log(action, details), lines 92-97
add_cleaning_log_call(t) ==
  /\ thr[t].pc = "add_cleaning_log_call"
  /\ Write(t, [thr[t] EXCEPT !.pc = "done", !.res = "ok"],
           add_cleaning_log(Mine(t), Payload(None, thr[t].rq)))

\* session.add_query(query, result, explanation), lines 99-105
add_query_call(t) ==
  /\ thr[t].pc = "add_query_call"
  /\ Write(t, [thr[t] EXCEPT !.pc = "done", !.res = "ok"],
           add_query(Mine(t), Payload(None, thr[t].rq)))

\* session.add_chart(chart_obj, chart_type, title), lines 107-113
add_chart_call(t) ==
  /\ thr[t].pc = "add_chart_call"
  /\ Write(t, [thr[t] EXCEPT !.pc = "done", !.res = "ok"],
           add_chart(Mine(t), Chart(None, thr[t].rq, 1)))

\* session.set_metadata(key, value), lines 125-126
set_metadata_call(t) ==
  /\ thr[t].pc = "set_metadata_call"
  /\ Write(t, [thr[t] EXCEPT !.pc = "done", !.res = "ok"],
           set_metadata(Mine(t), 1, thr[t].rq))

\* session.update_agent_status(agent, status), lines 131-132
update_agent_status_call(t) ==
  /\ thr[t].pc = "update_agent_status_call"
  /\ \E agent \in {"input_complete", "cleaning_complete", "nlq_ready"} :
       Write(t, [thr[t] EXCEPT !.pc = "done", !.res = "ok"],
             update_agent_status(Mine(t), agent, TRUE))

\* session.set_file_info(info), lines 134-135
set_file_info_call(t) ==
  /\ thr[t].pc = "set_file_info_call"
  /\ Write(t, [thr[t] EXCEPT !.pc = "done", !.res = "ok"],
           set_file_info(Mine(t), Payload(None, thr[t].rq)))

MethodRoutes == MethodCalls \cup {"add_insight", "api_session"}

StartMethod(t) == StartRequest(t, MethodRoutes, MaxMethodRequests)

NextMethod ==
  \E t \in Threads :
    \/ StartMethod(t)
    \/ create_uuid(t) \/ create_lock(t) \/ create_store(t)
    \/ init_lock(t) \/ init_check(t) \/ init_bind(t)
    \/ reset_store(t) \/ reset_bind(t)
    \/ set_dataframe_call(t) \/ add_cleaning_log_call(t) \/ add_query_call(t)
    \/ add_chart_call(t) \/ add_insight_call(t) \/ set_metadata_call(t)
    \/ update_agent_status_call(t) \/ set_file_info_call(t)
    \/ Return(t)

SpecMethod == Init /\ [][NextMethod]_vars

(* ------------------ mutations under a fair scheduler -------------------- *)
\* the browser's requests: a session is created only for a request that
\* arrives without a registered cookie, so that uuid4 is asked for at most
\* NumThreads ids
LiveRoutes == {"upload", "query"}

StartLive(t) == StartRequest(t, LiveRoutes, MaxLiveRequests)

\* the steps of the request thread t is serving
Run(t) ==
  \/ create_uuid(t) \/ create_lock(t) \/ create_store(t)
  \/ init_lock(t) \/ init_check(t) \/ init_bind(t)
  \/ ews_check(t)
  \/ upload_step_exec(t)
  \/ upload_242(t) \/ upload_243(t) \/ upload_244(t) \/ upload_245(t) \/ upload_246(t)
  \/ query_step_exec(t) \/ query_283(t)
  \/ Return(t)

NextLive == \E t \in Threads : StartLive(t) \/ Run(t)

\* the positions at which a handler waits for agent.execute to return
AgentPcs == {"upload_step_exec", "query_step_exec"}

\* the thread whose stage operations may take arbitrarily long
Slow == NumThreads

\* the steps the scheduler gets done whenever they stay possible: every step of
\* every thread, except that an agent's run on the slow thread need never end
Prompt(t) == Run(t) /\ (t = Slow => thr[t].pc \notin AgentPcs)

SpecLive == Init /\ [][NextLive]_vars /\ \A t \in Threads : WF_vars(Prompt(t))

(* ------------------ app.py: serialize_history (88-116) ------------------ *)
MaxHistory == 2

\* the classes a query result can be an instance of
ResultClasses ==
  {"DataFrame", "Series", "int", "float", "bool", "numpy.int64",
   "numpy.float64", "Decimal", "str", "NoneType", "dict"}

\* the classes isinstance(x, c) answers True for when type(x) is cls: bool is a
\* subclass of int and numpy.float64 of float, numpy.int64 is a subclass of
\* neither
Mro(cls) ==
  CASE cls = "bool" -> {"bool", "int"}
    [] cls = "numpy.float64" -> {"numpy.float64", "float"}
    [] OTHER -> {cls}

\* isinstance(r, classes)
isinstance(r, classes) == Mro(r.cls) \cap classes # {}

\* the values a query can return: a table (rows, columns), a series (length,
\* name), or a value of one of the other classes
Results ==
  [cls : {"DataFrame"}, rows : {0, 2}, columns : {<<>>, <<1, 2>>}]
    \cup [cls : {"Series"}, length : {1, 2}, name : {None, 1}]
    \cup [cls : ResultClasses \ {"DataFrame", "Series"}, value : {3}]

\* str(result): a str is its own string form
StrOf(r) == IF r.cls = "str" THEN r.value ELSE [str |-> r]

\* lines 92-106: the summary of one result
ResultSummary(r) ==
  IF isinstance(r, {"DataFrame"})
    THEN [type |-> "dataframe", rows |-> r.rows, columns |-> r.columns]
  ELSE IF isinstance(r, {"Series"})
    THEN [type |-> "series", length |-> r.length, name |-> r.name]
  ELSE IF isinstance(r, {"int", "float"})
    THEN [type |-> "scalar", value |-> r.value]
  ELSE [type |-> "text", value |-> StrOf(r)]

\* serialize_history(session), lines 88-116
serialize_history(s) ==
  [k \in 1..Len(s.query_history) |->
     LET item == s.query_history[k] IN
     [ timestamp      |-> item.timestamp,
       query          |-> item.query,
       explanation    |-> item.explanation,
       result_summary |-> ResultSummary(item.result) ]]

\* the k-th entry add_query (lines 99-105) leaves in query_history
HistoryItem(k, r) ==
  [timestamp |-> k, query |-> k, result |-> r, explanation |-> k]

\* the histories of at most MaxHistory queries
Histories ==
  UNION {[1..n -> Results] : n \in 0..MaxHistory}

\* a registered session with some query history, and a request for
\* /api/history that has resolved it
InitHistory ==
  /\ sessions = (1 :> 1)
  /\ lock = None
  /\ \E h \in Histories :
       heap = [o \in Objs |->
                 IF o = 1
                   THEN [SessionState EXCEPT
                           !.query_history = [k \in DOMAIN h |-> HistoryItem(k, h[k])]]
                   ELSE SessionState]
  /\ cookie = None
  /\ issued = {1}
  /\ published = {1}
  /\ nreq = 1
  /\ thr = [t \in Threads |->
              IF t = 1
                THEN [IdleThread EXCEPT !.pc = "query_history_exec",
                                        !.route = "api_history",
                                        !.hdr = 1, !.sid = 1, !.st = 1, !.rq = 1]
                ELSE IdleThread]

\* query_history, lines 414-416: return jsonify(serialize_history(session))
query_history_exec(t) ==
  /\ thr[t].pc = "query_history_exec"
  /\ Local(t, [thr[t] EXCEPT !.pc = "done", !.res = serialize_history(Mine(t))])

NextHistory == \E t \in Threads : query_history_exec(t)

SpecHistory == InitHistory /\ [][NextHistory]_vars

(* -------------- app.py: serialize_chart_payloads (137-146) -------------- *)
MaxCharts == 3

\* what a chart's "figure" can hold: nothing, a figure of plain JSON values, one
\* with non-finite floats or dates (the encoder converts them), one holding an
\* object the encoder has no conversion for, one that contains itself
FigureKinds == {"none", "plain", "nonfinite", "unsupported", "circular"}

Figures == [kind : FigureKinds]

\* {} and the placeholder {"data": [], "layout": {}}
EmptyFigure == [kind |-> "empty"]

PlaceholderFigure == [kind |-> "placeholder"]

\* json.dumps(figure, cls=PlotlyJSONEncoder): the text, or the exception raised.
\* JSONEncoder.default raises TypeError for an object it cannot convert; the
\* circular-reference check of json raises ValueError
dumps(figure) ==
  CASE figure.kind = "unsupported" -> [raised |-> "TypeError"]
    [] figure.kind = "circular" -> [raised |-> "ValueError"]
    [] OTHER -> [raised |-> "none", text |-> [json |-> figure]]

\* lines 140-145 for one chart: the entry appended, or the exception that leaves
\* the function
SerializeChart(chart) ==
  LET figure == IF chart.figure.kind = "none" THEN EmptyFigure ELSE chart.figure
      first == dumps(figure)
  IN IF first.raised = "none"
       THEN [raised |-> "none",
             entry |-> [title |-> chart.title, figure |-> chart.figure,
                        figure_json |-> first.text]]
     ELSE IF first.raised = "TypeError"
       THEN [raised |-> "none",
             entry |-> [title |-> chart.title, figure |-> chart.figure,
                        figure_json |-> dumps(PlaceholderFigure).text]]
     ELSE [raised |-> first.raised]

\* the loop of lines 139-145 from chart k on, with the entries collected so far
RECURSIVE SerializeFrom(_, _, _)
SerializeFrom(charts, k, serialized) ==
  IF k > Len(charts) THEN [raised |-> "none", value |-> serialized]
  ELSE LET one == SerializeChart(charts[k]) IN
       IF one.raised = "none"
         THEN SerializeFrom(charts, k + 1, Append(serialized, one.entry))
         ELSE [raised |-> one.raised]

\* serialize_chart_payloads(charts), lines 137-146
serialize_chart_payloads(charts) == SerializeFrom(charts, 1, <<>>)

\* the chart lists of at most MaxCharts charts
ChartLists ==
  UNION {[1..n -> Figures] : n \in 0..MaxCharts}

\* a registered session with some chart payloads, and a request for the
\* dashboard that has resolved it
InitCharts ==
  /\ sessions = (1 :> 1)
  /\ lock = None
  /\ \E c \in ChartLists :
       heap = [o \in Objs |->
                 IF o = 1
                   THEN [SessionState EXCEPT
                           !.chart_payloads =
                              [k \in DOMAIN c |-> [title |-> k, figure |-> c[k]]]]
                   ELSE SessionState]
  /\ cookie = 1
  /\ issued = {1}
  /\ published = {1}
  /\ nreq = 1
  /\ thr = [t \in Threads |->
              IF t = 1
                THEN [IdleThread EXCEPT !.pc = "build_dashboard_context_168",
                                        !.route = "build_dashboard_context",
                                        !.cin = 1, !.fs = 1, !.sid = 1, !.st = 1,
                                        !.rq = 1]
                ELSE IdleThread]

\* the list passed as charts once the function is left: lines 139-145 read it
\* (chart.get, {**chart, ...}) and assign only to the locals figure, figure_json
\* and serialized
ChartsAfterSerialize(charts) == charts

\* build_dashboard_context, line 168:
\* serialize_chart_payloads(session.state.chart_payloads); the caller keeps the
\* value the list had when it was passed
build_dashboard_context_168(t) ==
  /\ thr[t].pc = "build_dashboard_context_168"
  /\ Write(t, [thr[t] EXCEPT !.pc = "done",
                             !.inp = Mine(t).chart_payloads,
                             !.res = serialize_chart_payloads(Mine(t).chart_payloads)],
           [Mine(t) EXCEPT !.chart_payloads = ChartsAfterSerialize(@)])

NextCharts == \E t \in Threads : build_dashboard_context_168(t)

SpecCharts == InitCharts /\ [][NextCharts]_vars

(* --------- utils/validators.py: QueryValidator.validate_query ---------- *)
MaxPad == 2

\* the limits of lines 134 and 137
MinQueryLength == 3
MaxQueryLength == 500

\* a query text: lead whitespace characters, then core characters that begin
\* and end with a non-whitespace character (none when core = 0), then trail
\* whitespace characters. The lengths around both limits are covered.
Queries ==
  { q \in [lead : 0..MaxPad,
           core : (0..(MinQueryLength + 1))
                    \cup ((MaxQueryLength - 2)..(MaxQueryLength + 1)),
           trail : 0..MaxPad] :
      q.core = 0 => q.trail = 0 }

\* len(query)
len(q) == q.lead + q.core + q.trail

\* query.strip()
strip(q) == [lead |-> 0, core |-> q.core, trail |-> 0]

\* validate_query(query), lines 129-140
validate_query(query) ==
  IF len(query) = 0 \/ len(strip(query)) = 0
    THEN <<FALSE, "Query cannot be empty">>
  ELSE IF len(query) < MinQueryLength
    THEN <<FALSE, "Query too short (minimum 3 characters)">>
  ELSE IF len(query) > MaxQueryLength
    THEN <<FALSE, "Query too long (maximum 500 characters)">>
  ELSE <<TRUE, "Valid query">>

\* a caller about to run the static method r on the argument inp
CallInit(r, inputs) ==
  /\ sessions = <<>>
  /\ lock = None
  /\ heap = [o \in Objs |-> SessionState]
  /\ cookie = None
  /\ issued = {}
  /\ published = {}
  /\ nreq = 1
  /\ \E i \in inputs :
       thr = [t \in Threads |->
                IF t = 1
                  THEN [IdleThread EXCEPT !.pc = r, !.route = r, !.inp = i, !.rq = 1]
                  ELSE IdleThread]

InitValidate == CallInit("validate_query", Queries)

\* QueryValidator.validate_query(query) is called and returns
validate_query_call(t) ==
  /\ thr[t].pc = "validate_query"
  /\ Local(t, [thr[t] EXCEPT !.pc = "done", !.res = validate_query(thr[t].inp)])

NextValidate == \E t \in Threads : validate_query_call(t)

SpecValidate == InitValidate /\ [][NextValidate]_vars

(* ---------- utils/validators.py: QueryValidator.is_safe_query ---------- *)
MaxPieces == 2

\* dangerous_keywords, lines 145-149, in the order of the list; a string is the
\* sequence of its characters
dangerous_keywords ==
  << <<"d", "r", "o", "p", " ", "t", "a", "b", "l", "e">>,
     <<"d", "e", "l", "e", "t", "e", " ", "f", "r", "o", "m">>,
     <<"t", "r", "u", "n", "c", "a", "t", "e">>,
     <<"i", "n", "s", "e", "r", "t", " ", "i", "n", "t", "o">>,
     <<"u", "p", "d", "a", "t", "e", " ", "s", "e", "t">>,
     <<"e", "x", "e", "c">>,
     <<"s", "y", "s", "t", "e", "m">>,
     <<"o", "s", ".">>,
     <<"e", "v", "a", "l", "(">>,
     <<"e", "x", "e", "c", "(">> >>

LowerCase ==
  <<"a", "b", "c", "d", "e", "f", "g", "h", "i", "j", "k", "l", "m",
    "n", "o", "p", "q", "r", "s", "t", "u", "v", "w", "x", "y", "z">>

UpperCase ==
  <<"A", "B", "C", "D", "E", "F", "G", "H", "I", "J", "K", "L", "M",
    "N", "O", "P", "Q", "R", "S", "T", "U", "V", "W", "X", "Y", "Z">>

\* str.lower() and str.upper()
lower(s) ==
  [k \in 1..Len(s) |->
     IF \E n \in 1..26 : UpperCase[n] = s[k]
       THEN LowerCase[CHOOSE n \in 1..26 : UpperCase[n] = s[k]]
       ELSE s[k]]

upper(s) ==
  [k \in 1..Len(s) |->
     IF \E n \in 1..26 : LowerCase[n] = s[k]
       THEN UpperCase[CHOOSE n \in 1..26 : LowerCase[n] = s[k]]
       ELSE s[k]]

\* keyword in text
Contains(text, keyword) ==
  \E k \in 0..(Len(text) - Len(keyword)) :
    SubSeq(text, k + 1, k + Len(keyword)) = keyword

\* the pieces queries are put together from: the keywords in lower case, in
\* upper case and capitalised, parts of keywords, harmless text
Pieces ==
  {dangerous_keywords[k] : k \in 1..Len(dangerous_keywords)}
    \cup {upper(dangerous_keywords[k]) : k \in 1..Len(dangerous_keywords)}
    \cup {<<upper(dangerous_keywords[k])[1]>> \o Tail(dangerous_keywords[k]) :
            k \in 1..Len(dangerous_keywords)}
    \cup { <<"e", "x", "e">>, <<"c">>, <<"o", "s">>, <<".">>, <<"(">>,
           <<"d", "r", "o", "p">>, <<" ", "t", "a", "b", "l", "e">>,
           <<"s", "h", "o", "w", " ", "s", "a", "l", "e", "s">>, <<" ">> }

\* the queries of at most MaxPieces pieces
RECURSIVE Concat(_)
Concat(ps) == IF ps = <<>> THEN <<>> ELSE Head(ps) \o Concat(Tail(ps))

SafetyQueries ==
  {Concat(ps) : ps \in UNION {[1..n -> Pieces] : n \in 0..MaxPieces}}

\* the loop of lines 153-155 from keyword k on
RECURSIVE ScanFrom(_, _)
ScanFrom(query_lower, k) ==
  IF k > Len(dangerous_keywords)
    THEN <<TRUE, [text |-> "Query is safe", keyword |-> <<>>]>>
  ELSE IF Contains(query_lower, dangerous_keywords[k])
    THEN <<FALSE, [text |-> "Query contains potentially dangerous operation",
                   keyword |-> dangerous_keywords[k]]>>
  ELSE ScanFrom(query_lower, k + 1)

\* is_safe_query scanning the query as given (line 151 left out)
is_safe_query_cased(query) == ScanFrom(query, 1)

\* is_safe_query(query), lines 143-157
is_safe_query(query) == ScanFrom(lower(query), 1)

InitSafe == CallInit("is_safe_query", SafetyQueries)

\* QueryValidator.is_safe_query(query) is called and returns
is_safe_query_call(t) ==
  /\ thr[t].pc = "is_safe_query"
  /\ Local(t, [thr[t] EXCEPT !.pc = "done", !.res = is_safe_query(thr[t].inp)])

NextSafe == \E t \in Threads : is_safe_query_call(t)

SpecSafe == InitSafe /\ [][NextSafe]_vars

(* ============================== claims ================================= *)
\* thread t takes the step that starts at position p
Stepped(t, p) == thr[t].pc = p /\ thr'[t] # thr[t]

\* the request of thread t ends with this step
Completes(t) == thr[t].pc \notin {"idle", "done"} /\ thr'[t].pc = "done"

\* the session id the client sent with the request of thread t
Presented(t) == IF thr[t].route \in WebRoutes THEN thr[t].cin ELSE thr[t].hdr

\* thread t holds a handle its handler is still using
HasHandle(t) == thr[t].st # None /\ thr[t].pc # "done"

\* the fields a reset must leave empty
HistoryEmpty(s) ==
  /\ s.cleaning_log = <<>>
  /\ s.query_history = <<>>
  /\ s.generated_charts = <<>>
  /\ s.insights = <<>>
  /\ s.current_dataframe = None

\* the empty initial state: no dataset, no history, no cache, no flag set
IsInitial(s) ==
  /\ s.raw_dataframe = None
  /\ s.cleaned_dataframe = None
  /\ HistoryEmpty(s)
  /\ s.dataset_metadata = <<>>
  /\ ~s.agent_status.input_complete
  /\ ~s.agent_status.cleaning_complete
  /\ ~s.agent_status.nlq_ready
  /\ s.uploaded_file_info = EmptyDict
  /\ s.dataset_preview = EmptyDict
  /\ s.cleaning_summary = EmptyDict
  /\ s.last_query_result = EmptyDict
  /\ s.chart_payloads = <<>>
  /\ s.report_status = EmptyDict

\* the caches a new upload must clear
CachesCleared(s) ==
  /\ s.cleaning_summary = EmptyDict
  /\ s.last_query_result = EmptyDict
  /\ s.chart_payloads = <<>>
  /\ s.report_status = EmptyDict

\* C1: an id create_session never returned is not registered, has_session
\* answers false for it, and constructing SessionManager(id) fails with
\* NotFound and leaves the registry without an entry for it.
C1_UnknownIdNotResolved ==
  /\ \A i \in DOMAIN sessions : i \in issued
  /\ \A t \in Threads :
       (thr[t].pc = "done" /\ thr[t].sid \notin issued) =>
         /\ thr[t].route = "has_session" => thr[t].res = "false"
         /\ thr[t].route = "construct" => thr[t].res = "NotFound"

\* C2: when reset_session stores the new state (line 141), every other handle
\* for the same session id is bound to the state the registry now holds, and
\* reads empty histories and a null current_dataframe through it.
C2_ResetSeenByAllHandles ==
  [][\A r \in Threads : Stepped(r, "reset_store") =>
       \A t \in Threads \ {r} :
         (HasHandle(t) /\ thr[t].sid = thr[r].sid) =>
           /\ thr'[t].st = sessions'[thr[r].sid]
           /\ HistoryEmpty(heap'[thr'[t].st])]_vars

\* C3: a request (cookie route or header route) registers an id only in
\* create_session's store of the fresh id it generated: a step of a request
\* never brings back an id that was absent from the registry.
C3_OnlyCreateRegisters ==
  [][\A t \in Threads : \A i \in Ids \cup {Bogus} :
       ( /\ thr'[t] # thr[t]
         /\ thr[t].route \notin DirectCalls
         /\ i \notin DOMAIN sessions
         /\ i \in DOMAIN sessions' ) =>
           (Stepped(t, "create_store") /\ thr[t].sid = i)]_vars

\* thread t is inside a section that modifies its session's state: the agent
\* has written the datasets and the handler's own writes are still to come
Mutating(t) ==
  thr[t].pc \in {"upload_242", "upload_243", "upload_244", "upload_245",
                 "upload_246", "clean_266", "query_283"}

\* C4: no two handlers are at the same time inside a section that modifies the
\* state of the same session.
C4_OneMutatorPerSession ==
  \A t, u \in Threads :
    (t # u /\ Mutating(t) /\ Mutating(u)) =>
      ~(thr[t].sid = thr[u].sid /\ thr[t].st = thr[u].st)

\* the next step of thread t reads or writes SessionManager._sessions
RegistryAccess(t) ==
  \/ thr[t].pc \in {"create_store", "del_pop", "has_read", "init_check",
                    "init_bind", "reset_store", "reset_bind"}
  \/ thr[t].pc \in {"ews_check", "rsr_cookie"} /\ thr[t].fs # None
  \/ thr[t].pc \in {"gsa_check", "rsr_header"} /\ thr[t].hdr # None

\* C5: every read and every write of the registry is made by a thread that
\* holds the registry lock.
C5_RegistryUnderLock ==
  [][\A t \in Threads :
       (RegistryAccess(t) /\ thr'[t] # thr[t]) => lock = t]_vars

\* C6: create_session's store registers an id that was not registered, bound
\* to an empty initial state; has_session is true for it afterwards, the
\* registry has exactly one more entry, every earlier entry and its state are
\* unchanged, and the call returns the id without failing.
C6_CreateSession ==
  [][\A t \in Threads : Stepped(t, "create_store") =>
       LET i == thr[t].sid IN
       /\ i \notin DOMAIN sessions
       /\ i \in DOMAIN sessions'
       /\ IsInitial(heap'[sessions'[i]])
       /\ Cardinality(DOMAIN sessions') = Cardinality(DOMAIN sessions) + 1
       /\ \A j \in DOMAIN sessions :
            /\ j \in DOMAIN sessions'
            /\ sessions'[j] = sessions[j]
            /\ heap'[sessions'[j]] = heap[sessions[j]]
       /\ thr'[t].sid = i
       /\ thr'[t].res \in {"ok", "none"}
       /\ thr[t].route = "api_session" => thr'[t].res = "ok"]_vars

\* a session was created while another one already held an uploaded dataset
C6_Witness ==
  \E t \in Threads :
    /\ thr[t].route = "api_session" /\ thr[t].pc = "done" /\ thr[t].res = "ok"
    /\ thr[t].sid \in DOMAIN sessions
    /\ IsInitial(heap[sessions[thr[t].sid]])
    /\ \E j \in DOMAIN sessions \ {thr[t].sid} :
         heap[sessions[j]].raw_dataframe # None

\* C7: delete_session(id) removes the entry of id and nothing else, every
\* other entry and its state are unchanged, an absent id leaves the registry
\* as it was without an error, and a second delete changes nothing more.
C7_DeleteSession ==
  [][\A t \in Threads : Stepped(t, "del_pop") =>
       LET i == thr[t].sid IN
       /\ thr'[t].res = "ok"
       /\ DOMAIN sessions' = DOMAIN sessions \ {i}
       /\ \A j \in DOMAIN sessions' :
            /\ sessions'[j] = sessions[j]
            /\ heap'[sessions'[j]] = heap[sessions[j]]
       /\ i \notin DOMAIN sessions => sessions' = sessions
       /\ DeletePop(sessions', i) = sessions']_vars

\* a registered session was deleted while another session, holding an
\* uploaded dataset, stayed registered
C7_Witness ==
  \E t \in Threads :
    /\ thr[t].route = "delete_session" /\ thr[t].pc = "done" /\ thr[t].res = "ok"
    /\ thr[t].sid \in issued
    /\ thr[t].sid \notin DOMAIN sessions
    /\ \E j \in DOMAIN sessions : heap[sessions[j]].raw_dataframe # None

ResetRoutes == {"reset", "api_reset", "session_reset"}

\* C8: a reset request that succeeds leaves the client bound to the session
\* id it presented, and that id bound to an empty initial state.
C8_ResetKeepsId ==
  [][\A t \in Threads :
       ( /\ Completes(t)
         /\ thr[t].route \in ResetRoutes
         /\ thr'[t].res = "ok"
         /\ Presented(t) \in DOMAIN sessions' ) =>
           /\ thr'[t].sid = Presented(t)
           /\ IsInitial(heap'[sessions'[Presented(t)]])]_vars

C10_UploadClearsCaches ==
  [][\A t \in Threads :
       ( /\ Completes(t)
         /\ thr[t].route \in {"upload", "api_upload"}
         /\ thr'[t].res = "ok" ) =>
           CachesCleared(heap'[thr'[t].st])]_vars

(* --------------------------- failed stages ----------------------------- *)
\* the handlers of the five stages
StageRoutes ==
  {"upload", "clean", "query", "visualize_auto", "visualize_custom", "report",
   "api_upload", "api_clean", "api_query", "api_visualize_auto",
   "api_visualize_custom", "api_report"}

\* the outcomes surfaced as a flash error or a 400 with the message
Failures == {"InvalidInput", "PrerequisiteNotMet", "AgentFailure"}

\* the latest-result caches of a session state
Caches(s) ==
  <<s.dataset_preview, s.cleaning_summary, s.last_query_result,
    s.chart_payloads, s.report_status>>

\* C11: a stage request that fails (input rejected before the agent runs, or
\* the agent reports failure) fails in its first step after resolving the
\* session, ends there, and that step and the response leave dataset_preview,
\* cleaning_summary, last_query_result, chart_payloads and report_status as
\* they were, values committed by earlier successful stages included.
C11_FailureWritesNoCache ==
  [][\A t \in Threads :
       /\ ( /\ thr[t].route \in StageRoutes
            /\ thr[t].res \notin Failures
            /\ thr'[t].res \in Failures ) =>
              /\ thr[t].pc = Body(thr[t].route)
              /\ thr'[t].pc = "done"
              /\ sessions' = sessions
              /\ Caches(heap'[thr[t].st]) = Caches(heap[thr[t].st])
       /\ ( /\ thr[t].route \in StageRoutes
            /\ thr[t].res \in Failures
            /\ thr'[t] # thr[t] ) =>
              /\ thr'[t] = IdleThread
              /\ \A i \in DOMAIN sessions :
                   /\ i \in DOMAIN sessions'
                   /\ Caches(heap'[sessions'[i]]) = Caches(heap[sessions[i]])]_vars

\* a stage has failed on a session whose caches hold the results of an earlier
\* successful upload
C11_Witness ==
  \E t \in Threads :
    /\ thr[t].route \in StageRoutes /\ thr[t].pc = "done"
    /\ thr[t].res = "AgentFailure"
    /\ thr[t].sid \in DOMAIN sessions /\ sessions[thr[t].sid] = thr[t].st
    /\ Mine(t).dataset_preview # EmptyDict

(* ----------------------------- histories ------------------------------- *)
\* a is an initial part of b
IsPrefix(a, b) == Len(a) <= Len(b) /\ SubSeq(b, 1, Len(a)) = a

\* C12: as long as an id is neither reset nor deleted, each of cleaning_log,
\* query_history, generated_charts and insights of the registry's state for
\* that id only grows at the end: in every step that leaves the id bound to the
\* same state object, the old content of each list is an initial part of the
\* new content.
C12_HistoriesAppendOnly ==
  [][\A i \in DOMAIN sessions :
       (i \in DOMAIN sessions' /\ sessions'[i] = sessions[i]) =>
         LET old == heap[sessions[i]]
             new == heap'[sessions[i]]
         IN /\ IsPrefix(old.cleaning_log, new.cleaning_log)
            /\ IsPrefix(old.query_history, new.query_history)
            /\ IsPrefix(old.generated_charts, new.generated_charts)
            /\ IsPrefix(old.insights, new.insights)]_vars

\* a registered session holds two queries, in the order they were asked
C12_Witness ==
  \E i \in DOMAIN sessions :
    LET s == heap[sessions[i]] IN
    /\ Len(s.query_history) = 2
    /\ s.query_history[1].rq < s.query_history[2].rq

(* ------------------------------ progress ------------------------------- *)
\* C13: mutations on distinct sessions do not block each other: no thread
\* holds the registry lock while its agent runs, and under a fair scheduler
\* every request of a thread completes however long a stage operation of the
\* other thread takes, even if it never returns.
C13_DistinctSessionsProgress ==
  /\ [](\A t \in Threads : thr[t].pc \in AgentPcs => lock # t)
  /\ \A t \in Threads \ {Slow} :
       (thr[t].route \in LiveRoutes) ~> (thr[t].pc = "done")

\* two stage operations are in progress on two distinct registered sessions,
\* one of them appending to a history of a session that holds a dataset
C13_Witness ==
  \E t \in Threads \ {Slow} :
    /\ thr[t].pc = "query_step_exec"
    /\ thr[Slow].pc = "upload_step_exec"
    /\ thr[t].sid # thr[Slow].sid
    /\ thr[t].sid \in DOMAIN sessions /\ thr[Slow].sid \in DOMAIN sessions
    /\ sessions[thr[t].sid] = thr[t].st /\ sessions[thr[Slow].sid] = thr[Slow].st
    /\ Mine(t).current_dataframe # None

(* ------------------------- result summaries ---------------------------- *)
\* the classes of numeric scalars
NumericClasses == {"int", "float", "bool", "numpy.int64", "numpy.float64", "Decimal"}

\* C14: serialize_history summarises every query result by shape: a table as
\* type dataframe with its row count and column names, a series as type series
\* with its length and name, every numeric scalar as type scalar with the
\* value itself, never as text, and anything else as type text with its string
\* form.
C14_HistoryClassification ==
  \A t \in Threads :
    (thr[t].route = "api_history" /\ thr[t].pc = "done") =>
      /\ Len(thr[t].res) = Len(Mine(t).query_history)
      /\ \A k \in 1..Len(thr[t].res) :
           LET r == Mine(t).query_history[k].result
               sum == thr[t].res[k].result_summary
           IN CASE r.cls = "DataFrame" ->
                     /\ sum.type = "dataframe"
                     /\ sum.rows = r.rows /\ sum.columns = r.columns
                [] r.cls = "Series" ->
                     /\ sum.type = "series"
                     /\ sum.length = r.length /\ sum.name = r.name
                [] r.cls \in NumericClasses ->
                     /\ sum.type = "scalar"
                     /\ sum.value = r.value
                [] OTHER ->
                     /\ sum.type = "text"
                     /\ sum.value = StrOf(r)

(* --------------------------- chart encoding ---------------------------- *)
\* C15: serialize_chart_payloads never fails because of one chart: it returns
\* one entry per chart, and the entry of every chart whose figure cannot be
\* encoded, whatever the failure, carries the encoded placeholder
\* {data: [], layout: {}}.
C15_ChartPlaceholder ==
  \A t \in Threads :
    (thr[t].pc = "done" /\ thr[t].route = "build_dashboard_context") =>
      /\ thr[t].res.raised = "none"
      /\ Len(thr[t].res.value) = Len(Mine(t).chart_payloads)
      /\ \A k \in 1..Len(Mine(t).chart_payloads) :
           LET chart == Mine(t).chart_payloads[k] IN
           chart.figure.kind \in {"unsupported", "circular"} =>
             thr[t].res.value[k].figure_json = [json |-> PlaceholderFigure]

(* -------------------------- query validation --------------------------- *)
\* C16: validate_query accepts a query exactly when the length of the query
\* without its leading and trailing whitespace is between 3 and 500, limits
\* included.
C16_TrimmedLength ==
  \A t \in Threads :
    (thr[t].route = "validate_query" /\ thr[t].pc = "done") =>
      (thr[t].res[1] <=>
         ( /\ len(strip(thr[t].inp)) >= 3
           /\ len(strip(thr[t].inp)) <= 500 ))

(* ---------------------------- query safety ----------------------------- *)
\* the deny-list tokens that occur in the lower-cased query q
Offending(q) ==
  {k \in 1..Len(dangerous_keywords) : Contains(lower(q), dangerous_keywords[k])}

\* C17: is_safe_query rejects a query exactly when some deny-list token occurs
\* in the lower-cased query, the token named in the rejection is a deny-list
\* token that occurs in it, and a query with no such token is accepted.
C17_SafeQuery ==
  \A t \in Threads :
    (thr[t].route = "is_safe_query" /\ thr[t].pc = "done") =>
      /\ ~thr[t].res[1] <=> Offending(thr[t].inp) # {}
      /\ ~thr[t].res[1] =>
           \E k \in Offending(thr[t].inp) :
             thr[t].res[2].keyword = dangerous_keywords[k]

\* a query written with capitals that holds two deny-list tokens has been
\* rejected
C17_Witness ==
  \E t \in Threads :
    /\ thr[t].route = "is_safe_query" /\ thr[t].pc = "done"
    /\ ~thr[t].res[1]
    /\ thr[t].inp # lower(thr[t].inp)
    /\ Cardinality(Offending(thr[t].inp)) >= 2

(* ------------------------- caches and uploads -------------------------- *)
\* the cache c is empty or was computed from the upload d
FromUpload(c, d) == c.ds = None \/ c.ds = d

\* C18: in every reachable state, the states between the steps of an upload
\* request included, each latest-result cache of a registered session
\* (dataset_preview, cleaning_summary, last_query_result, chart_payloads,
\* report_status) is empty or belongs to the upload that current_dataframe
\* comes from.
C18_CachesMatchDataset ==
  \A i \in DOMAIN sessions :
    LET s == heap[sessions[i]]
        d == Origin(s.current_dataframe)
    IN /\ FromUpload(s.dataset_preview, d)
       /\ FromUpload(s.cleaning_summary, d)
       /\ FromUpload(s.last_query_result, d)
       /\ FromUpload(s.report_status, d)
       /\ \A k \in 1..Len(s.chart_payloads) : s.chart_payloads[k].ds = d

(* --------------------- caches of clean, query, report ------------------ *)
\* the latest-result cache of the stage a route belongs to
StageCache(s, r) ==
  CASE r \in {"clean", "api_clean"} -> s.cleaning_summary
    [] r \in {"query", "api_query"} -> s.last_query_result
    [] r \in {"report", "api_report"} -> s.report_status

\* C19: when a clean, query or report request succeeds, through the form route
\* or the API route, the stage's cache (cleaning_summary, last_query_result,
\* report_status) holds the output of that request.
C19_StageCacheOverwritten ==
  [][\A t \in Threads :
       ( /\ Completes(t)
         /\ thr[t].route \in {"clean", "api_clean", "query", "api_query",
                              "report", "api_report"}
         /\ thr'[t].res = "ok" ) =>
           StageCache(heap'[thr'[t].st], thr[t].route).rq = thr[t].rq]_vars

(* ---------------------------- chart payloads --------------------------- *)
\* the charts request n produced, in the order the agent returned them
ChartsOf(s, n) == SelectSeq(s.generated_charts, LAMBDA c : c.rq = n)

VisualizeRoutes ==
  {"visualize_auto", "visualize_custom", "api_visualize_auto", "api_visualize_custom"}

\* C20: when a visualize request succeeds (automatic or custom, form route or
\* API route), chart_payloads is the charts that request returned followed by
\* the previous chart_payloads in their previous order.
C20_ChartsPrepended ==
  [][\A t \in Threads :
       ( /\ Completes(t)
         /\ thr[t].route \in VisualizeRoutes
         /\ thr'[t].res = "ok" ) =>
           heap'[thr'[t].st].chart_payloads =
             ChartsOf(heap'[thr'[t].st], thr[t].rq) \o heap[thr[t].st].chart_payloads]_vars

(* -------------------------- dataset pointers --------------------------- *)
\* C21: in every reachable state of a registered session, whatever sequence of
\* set_dataframe calls with whatever df_type has run on it, a non-null
\* current_dataframe comes with a non-null raw_dataframe (an upload has
\* succeeded).
C21_CurrentImpliesRaw ==
  \A i \in DOMAIN sessions :
    heap[sessions[i]].current_dataframe # None =>
      heap[sessions[i]].raw_dataframe # None

(* ------------------------ chart encoding: frame ------------------------ *)
\* C22: serialize_chart_payloads leaves the chart list it is given as it was,
\* and returns one entry per chart, in the same order, that has every field of
\* the chart and the encoded figure besides.
C22_ChartsUnchanged ==
  \A t \in Threads :
    (thr[t].pc = "done" /\ thr[t].route = "build_dashboard_context") =>
      /\ Mine(t).chart_payloads = thr[t].inp
      /\ thr[t].res.raised = "none"
      /\ Len(thr[t].res.value) = Len(thr[t].inp)
      /\ \A k \in 1..Len(thr[t].inp) :
           LET entry == thr[t].res.value[k]
               chart == thr[t].inp[k]
           IN /\ DOMAIN entry = DOMAIN chart \cup {"figure_json"}
              /\ \A f \in DOMAIN chart : entry[f] = chart[f]

(* ------------------------------ isolation ------------------------------ *)
\* the positions at which a thread runs an instance method on its handle
MethodPcs ==
  {"set_dataframe_call", "add_cleaning_log_call", "add_query_call",
   "add_chart_call", "add_insight_call", "set_metadata_call",
   "update_agent_status_call", "set_file_info_call", "reset_store", "reset_bind"}

\* C23: an operation run through a handle for session A (set_dataframe, the
\* add_* appends, set_metadata, update_agent_status, set_file_info,
\* reset_session) leaves every other registered session B registered, bound to
\* the same state, and that state unchanged in every field, sessions that were
\* never written included.
C23_SessionsIsolated ==
  [][\A t \in Threads :
       (thr[t].pc \in MethodPcs /\ thr'[t] # thr[t]) =>
         \A b \in DOMAIN sessions \ {thr[t].sid} :
           /\ b \in DOMAIN sessions'
           /\ sessions'[b] = sessions[b]
           /\ heap'[sessions'[b]] = heap[sessions[b]]]_vars

\* an instance method has written to one session while another registered
\* session, never written, is still in its default state
C23_Witness ==
  \E t \in Threads :
    /\ thr[t].pc = "done" /\ thr[t].res = "ok"
    /\ thr[t].route \in MethodCalls \ {"reset_session"}
    /\ thr[t].sid \in DOMAIN sessions /\ sessions[thr[t].sid] = thr[t].st
    /\ ~IsInitial(Mine(t))
    /\ \E b \in DOMAIN sessions \ {thr[t].sid} : IsInitial(heap[sessions[b]])

(* ----------------------- concurrent visualize -------------------------- *)
\* chart_payloads of s holds every chart request n produced
HoldsChartsOf(s, n) ==
  \A k \in 1..Len(s.generated_charts) :
    s.generated_charts[k].rq = n =>
      \E j \in 1..Len(s.chart_payloads) : s.chart_payloads[j] = s.generated_charts[k]

\* C24: when two visualize requests for the same session have both finished
\* with success, whatever the interleaving, chart_payloads contains the charts
\* returned to both of them.
C24_NoLostChart ==
  \A t, u \in Threads :
    ( /\ t # u
      /\ thr[t].pc = "done" /\ thr[u].pc = "done"
      /\ thr[t].res = "ok" /\ thr[u].res = "ok"
      /\ thr[t].route \in {"visualize_auto", "visualize_custom"}
      /\ thr[u].route \in {"visualize_auto", "visualize_custom"}
      /\ thr[t].st = thr[u].st ) =>
        /\ HoldsChartsOf(Mine(t), thr[t].rq)
        /\ HoldsChartsOf(Mine(t), thr[u].rq)

(* ----------------------- constructor and delete ------------------------ *)
\* C25: SessionManager(id) always completes with a handle bound to the state
\* the registry holds for id, whatever a concurrent delete_session(id) does: the
\* last statement of the constructor never raises, and when the constructor
\* returns the id is registered and the handle's state is the registered one.
C25_ConstructSurvivesDelete ==
  [][\A t \in Threads : Stepped(t, "init_bind") =>
       /\ thr'[t].res # "InternalFault"
       /\ thr[t].sid \in DOMAIN sessions'
       /\ thr'[t].st = sessions'[thr[t].sid]]_vars

====
